---------------------------- MODULE Spec2Model ----------------------------
(***************************************************************************)
(* A model of deeppath (src/deeppath/deeppath.py): XPath-like access to    *)
(* nested Python structures.  read_path/make_command compile a path, dget  *)
(* is the fan-out reader, dget2 the legacy reader, dset the writer and     *)
(* dwalk the leaf walker.                                                  *)
(*                                                                         *)
(* Python strings (paths, keys, str scalars) are sequences of one-letter   *)
(* TLA+ strings, so that the regular expressions, the split on "/" and the *)
(* formatting of an index are computed character by character.             *)
(* A Python value is a record [kind, num, text, keys, items]:              *)
(*   "none"  None                                                          *)
(*   "int"   an int, in num                                                *)
(*   "str"   a str, its characters in text (a Sequence, not a Mapping)     *)
(*   "list"  a list, its elements in items (a MutableSequence)             *)
(*   "dict"  a dict, its keys in keys in insertion order, its values in    *)
(*           items at the same positions                                   *)
(* A call's outcome is a record whose field exc names the exception it     *)
(* raised, or is "none".                                                   *)
(*                                                                         *)
(* A value a Python function computes once and reads several times is the  *)
(* parameter of a helper operator here, named after the function.          *)
(***************************************************************************)
EXTENDS Integers, Sequences, FiniteSets, TLC

--------------------------------------------------------------------------
(* Characters and Python's str/int conversions *)

Digits == <<"0", "1", "2", "3", "4", "5", "6", "7", "8", "9">>

IsDigit(c) == c \in {"0", "1", "2", "3", "4", "5", "6", "7", "8", "9"}

DigitValue(c) == (CHOOSE i \in 1..Len(Digits) : Digits[i] = c) - 1

Letters == {"a", "b", "f", "k", "n", "x", "y"}

\* \w of Python's re on the characters used here: letters, digits, underscore
IsWord(c) == c \in Letters \cup {"0", "1", "2", "3", "4", "5", "6", "7", "8", "9", "_"}

RECURSIVE NatStr(_)
NatStr(n) == IF n < 10 THEN <<Digits[n + 1]>>
             ELSE NatStr(n \div 10) \o <<Digits[(n % 10) + 1]>>

\* str(i), as in f"[{index}]"
IntStr(i) == IF i < 0 THEN <<"-">> \o NatStr(0 - i) ELSE NatStr(i)

RECURSIVE NatVal(_)
NatVal(s) == IF s = <<>> THEN 0
             ELSE 10 * NatVal(SubSeq(s, 1, Len(s) - 1)) + DigitValue(s[Len(s)])

AllDigits(s) == s # <<>> /\ \A i \in 1..Len(s) : IsDigit(s[i])

HasMinus(s) == s # <<>> /\ s[1] = "-"

\* int(s) accepts, of the strings made of digits and "-": -?\d+
IntOk(s) == AllDigits(IF HasMinus(s) THEN Tail(s) ELSE s)

IntVal(s) == (IF HasMinus(s) THEN -1 ELSE 1) * NatVal(IF HasMinus(s) THEN Tail(s) ELSE s)

\* s[i:] of Python, i counted from 0
From(s, i) == SubSeq(s, i + 1, Len(s))

\* the least element of a set of integers, -1 for the empty set
MinOr(S) == IF S = {} THEN -1 ELSE CHOOSE i \in S : \A h \in S : i <= h

RECURSIVE Split(_)
SplitAt(s, i) == IF i < 0 THEN <<s>>
                 ELSE <<SubSeq(s, 1, i)>> \o Split(From(s, i + 1))

\* s.split("/")
Split(s) == SplitAt(s, MinOr({i \in 0..(Len(s) - 1) : s[i + 1] = "/"}))

RECURSIVE Join(_)
\* "/".join(parts)
Join(parts) == IF parts = <<>> THEN <<>>
               ELSE IF Len(parts) = 1 THEN parts[1]
               ELSE parts[1] \o <<"/">> \o Join(Tail(parts))

\* the length of the longest prefix of s whose characters are in the class
RECURSIVE RunWord(_)
RunWord(s) == IF s # <<>> /\ (IsWord(s[1]) \/ s[1] = "*")
              THEN 1 + RunWord(Tail(s)) ELSE 0

RECURSIVE RunDigitDash(_)
RunDigitDash(s) == IF s # <<>> /\ (IsDigit(s[1]) \/ s[1] = "-")
                   THEN 1 + RunDigitDash(Tail(s)) ELSE 0

RECURSIVE RunDigit(_)
RunDigit(s) == IF s # <<>> /\ IsDigit(s[1]) THEN 1 + RunDigit(Tail(s)) ELSE 0

--------------------------------------------------------------------------
(* _REPETITION_REGEX and _get_repetition_index *)

\* ([\w\*]+)\[([\d-]+)\] matched at the start of s: the length of the match,
\* 0 when there is none.  w is the run of [\w\*], r what follows it, d the run
\* of [\d-] after the "[".  The classes hold neither "[" nor "]", so the greedy
\* runs are the only way to match.
RepClose(r, w, d) == IF w > 0 /\ d > 0 /\ Len(r) >= d + 2 /\ r[d + 2] = "]"
                     THEN w + d + 2 ELSE 0
RepOpen(r, w) == RepClose(r, w, IF r # <<>> /\ r[1] = "[" THEN RunDigitDash(Tail(r))
                                ELSE 0)
RepRun(s, w) == RepOpen(From(s, w), w)
RepMatchLen(s) == RepRun(s, RunWord(s))

\* the start (from 0) of the leftmost match of search, -1 when none
RepSearch(s) == MinOr({i \in 0..(Len(s) - 1) : RepMatchLen(From(s, i)) > 0})

\* the two groups of the match m, whose first group has w characters
RepInt(key, num) ==
    IF IntOk(num)
    THEN [exc |-> "none", found |-> TRUE, key |-> key, index |-> IntVal(num)]
    ELSE [exc |-> "ValueError", found |-> FALSE, key |-> <<>>, index |-> 0]
RepGroups(m, w) ==
    RepInt(SubSeq(m, 1, w), SubSeq(m, w + 2, w + 1 + RunDigitDash(From(m, w + 1))))
RepMatch(m) == RepGroups(m, RunWord(m))
RepAt(key, i) ==
    IF i < 0 THEN [exc |-> "none", found |-> FALSE, key |-> <<>>, index |-> 0]
    ELSE RepMatch(From(key, i))

\* [exc, found, key, index]: found = FALSE is the None the function returns
\* when the segment does not match; int() raises ValueError on "1-2".
_get_repetition_index(key) == RepAt(key, RepSearch(key))

--------------------------------------------------------------------------
(* The path compiler: make_command and read_path *)

ThroughListFlat == [op |-> "ListFlat", key |-> <<>>, index |-> 0]
ThroughListIndexed(index) == [op |-> "ListIndexed", key |-> <<>>, index |-> index]
ThroughDictFlat == [op |-> "DictFlat", key |-> <<>>, index |-> 0]
ThroughDictKey(key) == [op |-> "DictKey", key |-> key, index |-> 0]

\* \[(-?\d+)\] matched at the start of s (re.match: a prefix, not the whole
\* token): the length of the match, 0 when there is none.  m is 1 when a "-"
\* follows the "[", d the run of digits.
ListIndexClose(s, m, d) ==
    IF s # <<>> /\ s[1] = "[" /\ d > 0 /\ Len(s) >= m + d + 2 /\ s[m + d + 2] = "]"
    THEN m + d + 2 ELSE 0
ListIndexSign(s, m) == ListIndexClose(s, m, RunDigit(From(s, 1 + m)))
ListIndexMatchLen(s) == ListIndexSign(s, IF Len(s) >= 2 /\ s[2] = "-" THEN 1 ELSE 0)

MakeIndexed(str_token, n) ==
    IF n > 0 THEN ThroughListIndexed(IntVal(SubSeq(str_token, 2, n - 1)))
    ELSE ThroughDictKey(str_token)

make_command(str_token) ==
    IF str_token = <<"*">> THEN ThroughDictFlat
    ELSE IF str_token = <<"[", "*", "]">> THEN ThroughListFlat
    ELSE MakeIndexed(str_token, ListIndexMatchLen(str_token))

\* (\[(?:\*|-?\d+)\]) matched at the start of s: the length, 0 when none
BracketMatchLen(s) ==
    IF Len(s) >= 3 /\ s[1] = "[" /\ s[2] = "*" /\ s[3] = "]" THEN 3
    ELSE ListIndexMatchLen(s)

RECURSIVE SubBrackets(_)
\* n is the length of the bracket matched after the first character of s
SubStep(s, n) ==
    IF s[1] # "/" /\ n > 0
    THEN <<s[1], "/">> \o SubSeq(s, 2, n + 1) \o SubBrackets(From(s, n + 1))
    ELSE <<s[1]>> \o SubBrackets(Tail(s))

\* re.sub(r"([^/])(\[(?:\*|-?\d+)\])", r"\g<1>/\g<2>", s): the matches are
\* taken left to right and do not overlap
SubBrackets(s) == IF s = <<>> THEN <<>> ELSE SubStep(s, BracketMatchLen(Tail(s)))

MakeCommands(path_commands) ==
    [i \in 1..Len(path_commands) |-> make_command(path_commands[i])]

\* [exc, commands]: path[0] raises IndexError on the empty path
read_path(path) ==
    IF path = <<>> THEN [exc |-> "IndexError", commands |-> <<>>]
    ELSE [exc |-> "none",
          commands |-> MakeCommands(Split(SubBrackets(
                           IF path[1] = "/" THEN Tail(path) ELSE path)))]

--------------------------------------------------------------------------
(* Python values *)

NoneV == [kind |-> "none", num |-> 0, text |-> <<>>, keys |-> <<>>, items |-> <<>>]
IntV(n) == [kind |-> "int", num |-> n, text |-> <<>>, keys |-> <<>>, items |-> <<>>]
StrV(s) == [kind |-> "str", num |-> 0, text |-> s, keys |-> <<>>, items |-> <<>>]
ListV(xs) == [kind |-> "list", num |-> 0, text |-> <<>>, keys |-> <<>>, items |-> xs]
DictV(ks, xs) == [kind |-> "dict", num |-> 0, text |-> <<>>, keys |-> ks, items |-> xs]

\* isinstance(v, Mapping), isinstance(v, Sequence), isinstance(v, MutableSequence)
IsMapping(v) == v.kind = "dict"
IsSequence(v) == v.kind \in {"list", "str"}
IsMutableSequence(v) == v.kind = "list"

\* A dict key that is an int (dset can create one: data[key][index] = value on
\* a dict) is written as a key no str key equals: "int" is not a character.
IntKey(i) == <<"int">> \o IntStr(i)
IsIntKey(k) == k # <<>> /\ k[1] = "int"

\* len(v) of a Sequence or a Mapping
PyLen(v) == IF v.kind = "str" THEN Len(v.text) ELSE Len(v.items)

\* the elements of a Sequence, in order (a str iterates over its characters)
Elements(v) == IF v.kind = "str" THEN [i \in 1..Len(v.text) |-> StrV(<<v.text[i]>>)]
               ELSE v.items

HasKey(v, k) == \E i \in 1..Len(v.keys) : v.keys[i] = k
KeyPos(v, k) == CHOOSE i \in 1..Len(v.keys) : v.keys[i] = k
Lookup(v, k) == v.items[KeyPos(v, k)]

\* v[i] of a Sequence for i within -len..len-1: negative i counts from the end
InRange(v, i) == 0 - PyLen(v) <= i /\ i < PyLen(v)
At(v, i) == Elements(v)[IF i < 0 THEN PyLen(v) + i + 1 ELSE i + 1]

RECURSIVE Concat(_)
Concat(ss) == IF ss = <<>> THEN <<>> ELSE ss[1] \o Concat(Tail(ss))

\* the first position (from 0) of xs whose outcome raised, -1 when none did
FirstRaise(xs) == MinOr({i \in 0..(Len(xs) - 1) : xs[i + 1].exc # "none"})

Ok(v) == [exc |-> "none", val |-> v]
Raise(e) == [exc |-> e, val |-> NoneV]

--------------------------------------------------------------------------
(* dget: the fan-out reader *)

\* the four steps take and return a batch: a sequence of values
go_through_dict_key(key, list_of_items) ==
    Concat([i \in 1..Len(list_of_items) |->
        IF IsMapping(list_of_items[i]) /\ HasKey(list_of_items[i], key)
        THEN <<Lookup(list_of_items[i], key)>> ELSE <<>>])

\* what one item adds to the batch: len(item) > index holds for every negative
\* index, and item[index] then raises IndexError when index < -len(item)
ListIndexItem(index, item) ==
    IF IsSequence(item) /\ PyLen(item) > index
    THEN IF InRange(item, index)
         THEN [exc |-> "none", out |-> <<At(item, index)>>]
         ELSE [exc |-> "IndexError", out |-> <<>>]
    ELSE [exc |-> "none", out |-> <<>>]

ListIndexBatch(step, r) ==
    IF r >= 0 THEN [exc |-> step[r + 1].exc, batch |-> <<>>]
    ELSE [exc |-> "none", batch |-> Concat([i \in 1..Len(step) |-> step[i].out])]

ListIndexSteps(step) == ListIndexBatch(step, FirstRaise(step))

\* [exc, batch]
go_through_list_index(index, list_of_items) ==
    ListIndexSteps([i \in 1..Len(list_of_items) |->
                       ListIndexItem(index, list_of_items[i])])

\* a go_through_list_flat that takes the first element of each Sequence only
go_through_list_first(list_of_items) ==
    Concat([i \in 1..Len(list_of_items) |->
        IF IsSequence(list_of_items[i]) /\ PyLen(list_of_items[i]) > 0
        THEN <<At(list_of_items[i], 0)>> ELSE <<>>])

go_through_list_flat(list_of_items) ==
    Concat([i \in 1..Len(list_of_items) |->
        IF IsSequence(list_of_items[i]) THEN Elements(list_of_items[i]) ELSE <<>>])

go_through_dict_flat(list_of_items) ==
    Concat([i \in 1..Len(list_of_items) |->
        IF IsMapping(list_of_items[i]) THEN list_of_items[i].items ELSE <<>>])

RECURSIVE process_commands(_, _)
\* the rest of the commands on the batch of r, unless the step raised
ProcessRest(commands, r) ==
    IF r.exc # "none" THEN r ELSE process_commands(commands, r.batch)

ProcessNext(next_command, data) ==
    IF next_command.op = "DictKey"
    THEN [exc |-> "none", batch |-> go_through_dict_key(next_command.key, data)]
    ELSE IF next_command.op = "ListIndexed"
    THEN go_through_list_index(next_command.index, data)
    ELSE IF next_command.op = "ListFlat"
    THEN [exc |-> "none", batch |-> go_through_list_flat(data)]
    ELSE [exc |-> "none", batch |-> go_through_dict_flat(data)]

\* [exc, batch]
process_commands(commands, data) ==
    IF commands = <<>> THEN [exc |-> "none", batch |-> data]
    ELSE ProcessRest(Tail(commands), ProcessNext(commands[1], data))

\* a HasFlat that looks for [*] only
HasListFlat(commands) == \E i \in 1..Len(commands) : commands[i].op = "ListFlat"

\* ThroughListFlat() in commands or ThroughDictFlat() in commands: the two are
\* empty namedtuples, equal to each other and to no command with a field
HasFlat(commands) ==
    \E i \in 1..Len(commands) : commands[i].op \in {"ListFlat", "DictFlat"}

\* lines 121-126, on the compiled commands and the final batch
DgetResult(commands, r, default) ==
    IF r.exc # "none" THEN Raise(r.exc)
    ELSE IF Len(r.batch) = 0 THEN Ok(default)
    ELSE IF ~HasFlat(commands) THEN Ok(r.batch[1])
    ELSE Ok(ListV(r.batch))

DgetCommands(c, data, default) ==
    IF c.exc # "none" THEN Raise(c.exc)
    ELSE DgetResult(c.commands, process_commands(c.commands, <<data>>), default)

\* [exc, val]
dget(data, path, default) == DgetCommands(read_path(path), data, default)

--------------------------------------------------------------------------
(* dget2: the legacy reader *)

\* data[key] for a str key: the first branch of _flatdget
GetItemKey(data, key) ==
    IF IsMapping(data)
    THEN IF HasKey(data, key) THEN Ok(Lookup(data, key)) ELSE Raise("KeyError")
    ELSE Raise("TypeError")

\* data[index] for an int index: a dict is asked for the int key, a Sequence
\* for the position, anything else is not subscriptable
GetItemIndex(data, index) ==
    IF IsMapping(data) THEN GetItemKey(data, IntKey(index))
    ELSE IF IsSequence(data)
    THEN IF InRange(data, index) THEN Ok(At(data, index)) ELSE Raise("IndexError")
    ELSE Raise("TypeError")

\* the outcome of [f(value) for value in ...] given the outcomes rs of the
\* calls: the first that raised, else the list of the values
ListOfFrom(rs, r) ==
    IF r >= 0 THEN Raise(rs[r + 1].exc)
    ELSE Ok(ListV([i \in 1..Len(rs) |-> rs[i].val]))
ListOf(rs) == ListOfFrom(rs, FirstRaise(rs))

RECURSIVE _flatdget(_, _)
\* _flatdget(data, key) for a str key (GetItemIndex is _flatdget for an int
\* key, which takes the first branch whatever data is).  Over a non-empty str
\* the comprehension calls itself on each one-character str, itself a
\* Sequence, without end: RecursionError.
_flatdget(data, key) ==
    IF ~IsSequence(data) THEN GetItemKey(data, key)
    ELSE IF data.kind = "str"
    THEN IF data.text = <<>> THEN Ok(ListV(<<>>)) ELSE Raise("RecursionError")
    ELSE ListOf([i \in 1..Len(data.items) |-> _flatdget(data.items[i], key)])

\* lines 142-143: data = _flatdget(data, key), then data = _flatdget(data, index)
FlatThenIndex(d, index) ==
    IF d.exc # "none" THEN d ELSE GetItemIndex(d.val, index)

\* line 145: data.values() is an AttributeError on anything but a dict
FlatValuesIndex(data, index) ==
    IF ~IsMapping(data) THEN Raise("AttributeError")
    ELSE ListOf([i \in 1..Len(data.items) |-> GetItemIndex(data.items[i], index)])

\* lines 147-151
Dget2Plain(data, key) ==
    IF key # <<"*">> THEN _flatdget(data, key)
    ELSE IF IsSequence(data) THEN Ok(data)
    ELSE IF ~IsMapping(data) THEN Raise("AttributeError")
    ELSE Ok(ListV(data.items))

Dget2Rep(data, key, repetition) ==
    IF repetition.exc # "none" THEN Raise(repetition.exc)
    ELSE IF ~repetition.found THEN Dget2Plain(data, key)
    ELSE IF repetition.key # <<"*">>
    THEN FlatThenIndex(_flatdget(data, repetition.key), repetition.index)
    ELSE FlatValuesIndex(data, repetition.index)

\* one iteration of the loop of dget2 on the segment key: [exc, val]
Dget2Step(data, key) == Dget2Rep(data, key, _get_repetition_index(key))

RECURSIVE Dget2Loop(_, _)
Dget2Rest(r, keys) == IF r.exc # "none" THEN r ELSE Dget2Loop(r.val, keys)

Dget2Loop(data, keys) ==
    IF keys = <<>> THEN Ok(data)
    ELSE Dget2Rest(Dget2Step(data, keys[1]), Tail(keys))

\* line 152: KeyError, TypeError and IndexError give the default, any other
\* exception leaves the function
Dget2Except(r, default) ==
    IF r.exc \in {"KeyError", "TypeError", "IndexError"} THEN Ok(default) ELSE r

\* [exc, val]
dget2(data, path, default) ==
    Dget2Except(Dget2Loop(data, Split(IF path # <<>> /\ path[1] = "/"
                                      THEN Tail(path) ELSE path)),
                default)

--------------------------------------------------------------------------
(* dset: the writer.  An outcome is [exc, data]: data after the call, with    *)
(* what the call changed before it raised.                                    *)

\* d[k] = v on a dict: an existing key keeps its place, a new one goes last
SetKey(d, k, v) ==
    IF HasKey(d, k)
    THEN [d EXCEPT !.items = [@ EXCEPT ![KeyPos(d, k)] = v]]
    ELSE [d EXCEPT !.keys = Append(@, k), !.items = Append(@, v)]

\* l[i] = v on a list, i within range
SetIndex(l, i, v) ==
    [l EXCEPT !.items = [@ EXCEPT ![IF i < 0 THEN Len(l.items) + i + 1 ELSE i + 1] = v]]

IsSubstring(k, s) ==
    \E i \in 1..(Len(s) - Len(k) + 1) : SubSeq(s, i, i + Len(k) - 1) = k

\* key in data, key a str: [exc, in].  A list holds key when one of its elements
\* is that str, a str when key is a substring of it
KeyIn(data, key) ==
    IF data.kind = "dict" THEN [exc |-> "none", in |-> HasKey(data, key)]
    ELSE IF data.kind = "list"
    THEN [exc |-> "none",
          in |-> \E i \in 1..Len(data.items) : data.items[i] = StrV(key)]
    ELSE IF data.kind = "str"
    THEN [exc |-> "none", in |-> IsSubstring(key, data.text)]
    ELSE [exc |-> "TypeError", in |-> FALSE]

\* data[key] = v, key a str: only a dict takes a str key
SetItemKey(data, key, v) ==
    IF IsMapping(data) THEN [exc |-> "none", data |-> SetKey(data, key, v)]
    ELSE [exc |-> "TypeError", data |-> data]

\* child[index] = v: a list within range, a dict under the int key
SetItemIndex(child, index, v) ==
    IF child.kind = "list"
    THEN IF InRange(child, index)
         THEN [exc |-> "none", data |-> SetIndex(child, index, v)]
         ELSE [exc |-> "IndexError", data |-> child]
    ELSE IF child.kind = "dict"
    THEN [exc |-> "none", data |-> SetKey(child, IntKey(index), v)]
    ELSE [exc |-> "TypeError", data |-> child]

\* an AtEnd that is off by one
AtEndPlusOne(child, index) == PyLen(child) = index + 1

\* len(data[key]) == index, the test that decides on an append
AtEnd(child, index) == PyLen(child) = index

\* The container a key[index] step works on, after the create or the append of
\* lines 169-172 and 180-184: [exc, data, child, done].  fresh is the value put
\* into a new place, done says that fresh now sits at index.
RepOutcome(exc, data, child, done) ==
    [exc |-> exc, data |-> data, child |-> child, done |-> done]

\* data[key] = [fresh]
RepCreate(s, child) == RepOutcome(s.exc, s.data, child, TRUE)

\* data[key].append(fresh): only a list has append
RepAppend(data, key, child, fresh) ==
    IF child.kind = "list"
    THEN RepOutcome("none", SetKey(data, key, ListV(Append(child.items, fresh))),
                    ListV(Append(child.items, fresh)), TRUE)
    ELSE RepOutcome("AttributeError", data, child, FALSE)

\* len(data[key]) raises TypeError on None and on an int
RepPresent(data, key, index, fresh, child) ==
    IF child.kind \in {"none", "int"} THEN RepOutcome("TypeError", data, child, FALSE)
    ELSE IF AtEnd(child, index) THEN RepAppend(data, key, child, fresh)
    ELSE RepOutcome("none", data, child, FALSE)

RepKeyIn(data, key, index, fresh, kin) ==
    IF kin.exc # "none" THEN RepOutcome(kin.exc, data, NoneV, FALSE)
    ELSE IF ~kin.in
    THEN RepCreate(SetItemKey(data, key, ListV(<<fresh>>)), ListV(<<fresh>>))
    ELSE IF ~IsMapping(data) THEN RepOutcome("TypeError", data, NoneV, FALSE)
    ELSE RepPresent(data, key, index, fresh, Lookup(data, key))

RepContainer(data, key, index, fresh) ==
    RepKeyIn(data, key, index, fresh, KeyIn(data, key))

\* line 186, data[key][index] = value, with its outcome s put back under key
LastStore(data, key, s) ==
    [exc |-> s.exc, data |-> IF s.exc = "none" THEN SetKey(data, key, s.data) ELSE data]

LastContainer(c, last, value) ==
    IF c.exc # "none" \/ c.done THEN [exc |-> c.exc, data |-> c.data]
    ELSE LastStore(c.data, last.key, SetItemIndex(c.child, last.index, value))

LastRep(data, seg, value, last) ==
    IF last.exc # "none" THEN [exc |-> last.exc, data |-> data]
    ELSE IF ~last.found THEN SetItemKey(data, seg, value)
    ELSE LastContainer(RepContainer(data, last.key, last.index, value), last, value)

\* lines 175-186: the last segment
DsetLast(data, seg, value) == LastRep(data, seg, value, _get_repetition_index(seg))

RECURSIVE DsetRec(_, _, _)

\* lines 164-166, key in data: descend into data[key]
PlainDescend(data, key, g, keys, value) ==
    IF g.exc # "none" THEN [exc |-> g.exc, data |-> data]
    ELSE [exc |-> DsetRec(g.val, keys, value).exc,
          data |-> SetKey(data, key, DsetRec(g.val, keys, value).data)]

PlainCreated(s, key, keys, value) ==
    IF s.exc # "none" THEN s
    ELSE PlainDescend(s.data, key, GetItemKey(s.data, key), keys, value)

PlainKeyIn(data, key, kin, keys, value) ==
    IF kin.exc # "none" THEN [exc |-> kin.exc, data |-> data]
    ELSE PlainCreated(IF kin.in THEN [exc |-> "none", data |-> data]
                      ELSE SetItemKey(data, key, DictV(<<>>, <<>>)),
                      key, keys, value)

\* the element the step descended into, put back into its container
PutBack(child, index, r) ==
    IF child.kind = "list" THEN SetIndex(child, index, r.data)
    ELSE IF child.kind = "dict" THEN SetKey(child, IntKey(index), r.data)
    ELSE child

RepDescended(c, subpath, r) ==
    [exc |-> r.exc, data |-> SetKey(c.data, subpath.key, PutBack(c.child, subpath.index, r))]

\* line 173: data = data[key][index]
RepDescend(c, subpath, g, keys, value) ==
    IF g.exc # "none" THEN [exc |-> g.exc, data |-> c.data]
    ELSE RepDescended(c, subpath, DsetRec(g.val, keys, value))

RepStep(c, subpath, keys, value) ==
    IF c.exc # "none" THEN [exc |-> c.exc, data |-> c.data]
    ELSE RepDescend(c, subpath, GetItemIndex(c.child, subpath.index), keys, value)

\* lines 162-173: one segment that is not the last
DsetStep(data, key, subpath, keys, value) ==
    IF subpath.exc # "none" THEN [exc |-> subpath.exc, data |-> data]
    ELSE IF ~subpath.found THEN PlainKeyIn(data, key, KeyIn(data, key), keys, value)
    ELSE RepStep(RepContainer(data, subpath.key, subpath.index, DictV(<<>>, <<>>)),
                 subpath, keys, value)

\* keys are the segments left
DsetRec(data, keys, value) ==
    IF Len(keys) = 1 THEN DsetLast(data, keys[1], value)
    ELSE DsetStep(data, keys[1], _get_repetition_index(keys[1]), Tail(keys), value)

\* [exc, data]
dset(data, path, value) ==
    DsetRec(data, Split(IF path # <<>> /\ path[1] = "/" THEN Tail(path) ELSE path),
            value)

--------------------------------------------------------------------------
(* dwalk: the leaf walker.  An outcome is [exc, pairs]: the (path, leaf)      *)
(* pairs yielded before the generator raised exc.                             *)

RECURSIVE WalkEach(_, _, _)
RECURSIVE _dwalk_with_path(_, _)

\* lines 192 and 196-197: the path of the i-th child of a dict or of a list
SubPath(data, path, i) ==
    IF IsMapping(data) THEN [exc |-> "none", path |-> Append(path, data.keys[i])]
    ELSE IF path = <<>> THEN [exc |-> "IndexError", path |-> path]
    ELSE IF IsIntKey(path[Len(path)]) THEN [exc |-> "TypeError", path |-> path]
    ELSE [exc |-> "none",
          path |-> [path EXCEPT ![Len(path)] = @ \o <<"[">> \o IntStr(i - 1) \o <<"]">>]]

\* the pairs of a child, then those of the children after it
WalkThen(r, data, path, i) ==
    IF r.exc # "none" THEN r
    ELSE [exc |-> WalkEach(data, path, i).exc,
          pairs |-> r.pairs \o WalkEach(data, path, i).pairs]

WalkChild(data, path, i, sub) ==
    IF sub.exc # "none" THEN [exc |-> sub.exc, pairs |-> <<>>]
    ELSE WalkThen(_dwalk_with_path(data.items[i], sub.path), data, path, i + 1)

\* the loop over a container from its i-th child on
WalkEach(data, path, i) ==
    IF i > Len(data.items) THEN [exc |-> "none", pairs |-> <<>>]
    ELSE WalkChild(data, path, i, SubPath(data, path, i))

_dwalk_with_path(data, path) ==
    IF IsMapping(data) \/ IsMutableSequence(data) THEN WalkEach(data, path, 1)
    ELSE IF \E i \in 1..Len(path) : IsIntKey(path[i])
    THEN [exc |-> "TypeError", pairs |-> <<>>]
    ELSE [exc |-> "none", pairs |-> <<[path |-> Join(path), leaf |-> data]>>]

dwalk(data) == _dwalk_with_path(data, <<>>)

--------------------------------------------------------------------------
(* Bounds and the inputs of the calls *)

\* the indices written in the paths are -MaxIdx..MaxIdx
MaxIdx == 2
\* the lists of the initial trees have at most MaxLen elements
MaxLen == 2
\* the writer is called at most MaxWrites times on one tree
MaxWrites == 3

Idx == (0 - MaxIdx)..MaxIdx

Bracket(i) == <<"[">> \o IntStr(i) \o <<"]">>
Slash(a, b) == a \o <<"/">> \o b

Keys == {<<"k">>, <<"n">>, <<"a">>}
Star == <<"*">>
ListStar == <<"[", "*", "]">>

\* the segments: plain keys and wildcards, [idx], key[idx] and *[idx], key[*],
\* and the segments the grammar does not name
PlainSegs == Keys \cup {Star, ListStar} \cup {Bracket(i) : i \in Idx}
IndexedSegs == {k \o Bracket(i) : k \in {<<"k">>, Star}, i \in Idx}
                  \cup {<<"k">> \o ListStar}
OddSegs == {<<"[", "0", "]", "x">>, <<"k", "[", "0", "]", "[", "1", "]">>,
            <<"k", "[", "1", "-", "2", "]">>, <<"a", "-", "b", "[", "0", "]">>,
            <<"a", "-", "b">>, <<>>}
Segs == PlainSegs \cup IndexedSegs \cup OddSegs
Heads == {<<"k">>, <<"a">>, Star, ListStar, Bracket(0), <<"k">> \o Bracket(0),
          <<"k">> \o Bracket(-1)}

Paths == Segs
           \cup {Slash(a, b) : a \in Heads, b \in Segs}
           \cup {Slash(<<"k">>, Slash(m, n)) :
                    m \in {Star, ListStar, Bracket(0), Bracket(-1)},
                    n \in {<<"n">>, <<"a">>}}
           \cup {Slash(<<"k">> \o ListStar, n) : n \in {<<"n">>, <<"a">>}}
           \cup {<<"/">> \o p : p \in PlainSegs \cup IndexedSegs}

\* the defaults: Python's None and a value no tree holds
Sentinel == IntV(0)
Defaults == {NoneV, Sentinel}

Ints == {IntV(1), IntV(2)}
Leaves == Ints \cup {StrV(<<"x", "y">>)}
EmptyDict == DictV(<<>>, <<>>)
Recs == {DictV(<<<<"n">>>>, <<l>>) : l \in Ints} \cup {DictV(<<<<"a">>>>, <<IntV(1)>>)}
ListsOf(E) == {ListV(xs) : xs \in UNION {[1..n -> E] : n \in 0..MaxLen}}
Inner == Leaves \cup Recs \cup {EmptyDict} \cup ListsOf(Ints) \cup ListsOf(Recs)
           \cup {ListV(<<ListV(<<IntV(1), IntV(2)>>)>>)}

\* the trees the readers are given: scalars, lists and dicts at the root
Trees == Leaves \cup {NoneV} \cup ListsOf(Ints) \cup ListsOf(Recs)
           \cup {DictV(<<<<"k">>>>, <<x>>) : x \in Inner}
           \cup {DictV(<<<<"a">>, <<"n">>>>, <<IntV(1), IntV(2)>>),
                 DictV(<<<<"a">>>>, <<DictV(<<<<"x">>>>, <<IntV(1)>>)>>),
                 DictV(<<<<"a", "-", "b">>>>, <<ListV(<<IntV(1)>>)>>)}

\* the paths and the trees the writer is given
WPaths == {Slash(<<"k">> \o Bracket(i), <<"f">>) : i \in -1..MaxIdx}
            \cup {<<"k">> \o Bracket(i) : i \in Idx}
            \cup {<<"a">>, <<"a", "/", "b">>, <<"/", "a">>, <<"[", "0", "]">>,
                  <<"k", "/", "[", "0", "]">>,
                  <<"a", "-", "b", "[", "0", "]">>,
                  <<"k", "[", "0", "]", "[", "1", "]">>,
                  <<"k", "[", "1", "-", "2", "]">>}
WValues == Ints
WTrees == {EmptyDict,
           DictV(<<<<"k">>>>, <<ListV(<<>>)>>),
           DictV(<<<<"k">>>>, <<ListV(<<IntV(1), IntV(2)>>)>>),
           DictV(<<<<"k">>>>, <<ListV(<<ListV(<<IntV(1), IntV(2)>>)>>)>>),
           DictV(<<<<"k">>>>, <<StrV(<<"x", "y">>)>>),
           DictV(<<<<"k">>>>, <<EmptyDict>>),
           DictV(<<<<"a">>>>, <<IntV(1)>>),
           DictV(<<<<"a", "-", "b">>>>, <<ListV(<<IntV(1)>>)>>),
           ListV(<<IntV(1)>>)}

--------------------------------------------------------------------------
(* The calls.  tree is the caller's structure, call the call in progress or   *)
(* just made with its outcome, run the history of the writes: whether they    *)
(* were, from the empty dict, k[0]/f, k[1]/f, ... in this order, and the      *)
(* values they wrote.                                                         *)

VARIABLES tree, call, run

vars == <<tree, call, run>>

Idle == [op |-> "idle", path |-> <<>>, arg |-> NoneV, pre |-> NoneV,
         exc |-> "none", val |-> NoneV, commands |-> <<>>, pairs |-> <<>>]

Init == /\ tree \in Trees
        /\ call = Idle
        /\ run = [ok |-> FALSE, vals |-> <<>>]

InitWrite == /\ tree \in WTrees
             /\ call = Idle
             /\ run = [ok |-> tree = EmptyDict, vals |-> <<>>]

\* the call as the caller sees it once made
Made(op, p, arg, r) ==
    [op |-> op, path |-> p, arg |-> arg, pre |-> tree, exc |-> r.exc,
     val |-> r.val, commands |-> r.commands, pairs |-> r.pairs]

NoVal == [val |-> NoneV]
NoCommands == [commands |-> <<>>]
NoPairs == [pairs |-> <<>>]

DGet(p, D) ==
    /\ call.op = "idle"
    /\ call' = Made("dget", p, D, dget(tree, p, D) @@ read_path(p) @@ NoPairs)
    /\ UNCHANGED <<tree, run>>

DGet2(p, D) ==
    /\ call.op = "idle"
    /\ call' = Made("dget2", p, D, dget2(tree, p, D) @@ NoCommands @@ NoPairs)
    /\ UNCHANGED <<tree, run>>

DWalk ==
    /\ call.op = "idle"
    /\ call' = Made("dwalk", <<>>, NoneV, dwalk(tree) @@ NoVal @@ NoCommands)
    /\ UNCHANGED <<tree, run>>

ReadPath(p) ==
    /\ call.op = "idle"
    /\ call' = Made("read_path", p, NoneV, read_path(p) @@ NoVal @@ NoPairs)
    /\ UNCHANGED <<tree, run>>

\* the path of the i-th write (from 0) of the run that builds a list: k[i]/f
BuildPath(i) == Slash(<<"k">> \o Bracket(i), <<"f">>)

\* the tree is changed in place, also when the call raises
Written(p, v, r) ==
    /\ tree' = r.data
    /\ call' = Made("dset", p, v, [exc |-> r.exc] @@ NoVal @@ NoCommands @@ NoPairs)

DSet(p, v) ==
    /\ call.op = "idle"
    /\ Len(run.vals) < MaxWrites
    /\ Written(p, v, dset(tree, p, v))
    /\ run' = [ok |-> run.ok /\ p = BuildPath(Len(run.vals)),
               vals |-> Append(run.vals, v)]

\* the caller takes the outcome
Return ==
    /\ call.op # "idle"
    /\ call' = Idle
    /\ UNCHANGED <<tree, run>>

Next == \/ \E p \in Paths \cup {<<>>}, D \in Defaults : DGet(p, D)
        \/ \E p \in Paths \cup {<<>>}, D \in Defaults : DGet2(p, D)
        \/ DWalk
        \/ \E p \in Paths \cup {<<>>} : ReadPath(p)
        \/ Return

NextWrite == \/ \E p \in WPaths, v \in WValues : DSet(p, v)
             \/ Return

\* the readers on one tree
Spec == Init /\ [][Next]_vars

\* the writer, called again and again on one tree
SpecWrite == InitWrite /\ [][NextWrite]_vars

--------------------------------------------------------------------------
(* What the claims speak of, stated apart from the code *)

\* the values one step of a compiled path reaches from one item
Children(item, c) ==
    IF c.op = "DictKey"
    THEN IF IsMapping(item) /\ HasKey(item, c.key) THEN <<Lookup(item, c.key)>> ELSE <<>>
    ELSE IF c.op = "ListIndexed"
    THEN IF IsSequence(item) /\ InRange(item, c.index) THEN <<At(item, c.index)>> ELSE <<>>
    ELSE IF c.op = "ListFlat"
    THEN IF IsSequence(item) THEN Elements(item) ELSE <<>>
    ELSE IF IsMapping(item) THEN item.items ELSE <<>>

RECURSIVE Matches(_, _)
MatchesOf(cs, commands) == Concat([i \in 1..Len(cs) |-> Matches(cs[i], commands)])

\* the values a compiled path matches in item, branch by branch, in order
Matches(item, commands) ==
    IF commands = <<>> THEN <<item>>
    ELSE MatchesOf(Children(item, commands[1]), Tail(commands))

ContainsWildcard(commands) ==
    \E i \in 1..Len(commands) : commands[i] \in {ThroughDictFlat, ThroughListFlat}

IsScalar(v) == v.kind \in {"none", "int", "str"}

RECURSIVE IsPlainTree(_)
\* a tree of dicts, lists, ints and None: it holds no str, which Python takes
\* for a Sequence of one-character strs
IsPlainTree(v) == v.kind # "str" /\ \A i \in 1..Len(v.items) : IsPlainTree(v.items[i])

\* the forms of a segment: a key of word characters, a key of any characters
\* but "/", "[" and "]", a bracketed signed integer, a key followed by one
IsWordKey(s) == s # <<>> /\ \A i \in 1..Len(s) : IsWord(s[i])
IsAnyKey(s) == s # <<>> /\ \A i \in 1..Len(s) : s[i] \notin {"/", "[", "]"}
IsBracketInt(s) ==
    Len(s) >= 3 /\ s[1] = "[" /\ s[Len(s)] = "]" /\ IntOk(SubSeq(s, 2, Len(s) - 1))
IsWordKeyIdx(s) ==
    \E j \in 1..Len(s) : IsWordKey(SubSeq(s, 1, j)) /\ IsBracketInt(From(s, j))
IsAnyKeyIdx(s) ==
    \E j \in 1..Len(s) : IsAnyKey(SubSeq(s, 1, j)) /\ IsBracketInt(From(s, j))

Stripped(path) == IF path # <<>> /\ path[1] = "/" THEN Tail(path) ELSE path

\* a path of plain keys, key[idx] and stand-alone [idx] segments
IsIndexPath(path) ==
    \A i \in 1..Len(Split(Stripped(path))) :
        \/ IsWordKey(Split(Stripped(path))[i])
        \/ IsWordKeyIdx(Split(Stripped(path))[i])
        \/ IsBracketInt(Split(Stripped(path))[i])

IsStarIdx(s) == \E j \in 1..Len(s) : SubSeq(s, 1, j) = <<"*">> /\ IsBracketInt(From(s, j))

\* a path of the segments of the legacy reader: key, *, key[idx], *[idx]
IsLegacyPath(path) ==
    \A i \in 1..Len(Split(Stripped(path))) :
        \/ IsWordKey(Split(Stripped(path))[i])
        \/ IsWordKeyIdx(Split(Stripped(path))[i])
        \/ Split(Stripped(path))[i] = <<"*">>
        \/ IsStarIdx(Split(Stripped(path))[i])

\* the same, the keys of any characters
IsAnyIndexPath(path) ==
    \A i \in 1..Len(Split(Stripped(path))) :
        \/ IsAnyKey(Split(Stripped(path))[i])
        \/ IsAnyKeyIdx(Split(Stripped(path))[i])
        \/ IsBracketInt(Split(Stripped(path))[i])

\* path resolves to a leaf of t
ResolvesToLeaf(t, path) ==
    /\ path # <<>>
    /\ Len(Matches(t, read_path(path).commands)) = 1
    /\ IsScalar(Matches(t, read_path(path).commands)[1])

--------------------------------------------------------------------------
(* C3 *)

WildcardRead ==
    call.op = "dget" /\ call.exc = "none" /\ ContainsWildcard(call.commands)

\* C3 as stated: a read whose compiled path has a * or [*] step returns a
\* list, also when one value or no value matches.
C3_AlwaysList == WildcardRead => call.val.kind = "list"

\* C3 amended: a read whose compiled path has a * or [*] step returns the list
\* of all the values matched when at least one matches, a one-element list
\* when exactly one does, and the default when none does.
C3_ListOrDefault ==
    WildcardRead =>
        IF Matches(tree, call.commands) = <<>> THEN call.val = call.arg
        ELSE call.val = ListV(Matches(tree, call.commands))

C3_OneMatch ==
    WildcardRead /\ call.val.kind = "list" /\ Len(call.val.items) = 1
       /\ IsScalar(call.val.items[1])

--------------------------------------------------------------------------
(* C5 *)

\* C5: dget raises nothing, and returns the default when no value matches
\* (checked on the non-empty paths without wildcard and the trees without str).
C5_NeverRaises ==
    (/\ call.op = "dget" /\ call.path # <<>>
     /\ ~ContainsWildcard(call.commands) /\ IsPlainTree(tree)) =>
        /\ call.exc = "none"
        /\ Matches(tree, call.commands) = <<>> => call.val = call.arg

--------------------------------------------------------------------------
(* C6 *)

\* C6: when dget resolves a path of plain keys, key[idx] and stand-alone [idx]
\* segments to a scalar, dget2 returns that scalar too (checked on the trees
\* without str).
C6_ReadersAgree ==
    (/\ call.op = "dget" /\ call.exc = "none"
     /\ IsIndexPath(call.path) /\ IsPlainTree(tree)
     /\ ResolvesToLeaf(tree, call.path)) =>
        dget2(tree, call.path, call.arg) = Ok(call.val)

--------------------------------------------------------------------------
(* C7 *)

\* t[k] is a list of dicts that all have the key n
ListOfDictsWith(t, k, n) ==
    /\ IsMapping(t) /\ HasKey(t, k)
    /\ Lookup(t, k).kind = "list"
    /\ \A i \in 1..Len(Lookup(t, k).items) :
          IsMapping(Lookup(t, k).items[i]) /\ HasKey(Lookup(t, k).items[i], n)

\* the n-values of the elements of t[k], in order
Column(t, k, n) ==
    ListV([i \in 1..Len(Lookup(t, k).items) |-> Lookup(Lookup(t, k).items[i], n)])

\* C7 as stated: where k maps to a list of dicts that each have n, the read of
\* k/*/n returns the list of the n-values in order (checked on the non-empty
\* lists).
C7_StarOverList ==
    \A k \in Keys, n \in Keys :
        (/\ call.op = "dget" /\ call.path = Slash(k, Slash(Star, n))
         /\ ListOfDictsWith(tree, k, n) /\ Lookup(tree, k).items # <<>>) =>
            call.exc = "none" /\ call.val = Column(tree, k, n)

\* C7 amended: where k maps to a non-empty list of dicts that each have n, the
\* reads of k/[*]/n and of k[*]/n return the list of the n-values in order,
\* and the read of k/*/n returns the default: * steps through dicts only.
\* Where the list is empty the three reads return the default.
C7_ListStarOverList ==
    \A k \in Keys, n \in Keys :
        (call.op = "dget" /\ ListOfDictsWith(tree, k, n)) =>
            /\ call.path \in {Slash(k, Slash(ListStar, n)), Slash(k \o ListStar, n)}
                  => /\ call.exc = "none"
                     /\ call.val = IF Lookup(tree, k).items = <<>> THEN call.arg
                                   ELSE Column(tree, k, n)
            /\ call.path = Slash(k, Slash(Star, n))
                  => call.exc = "none" /\ call.val = call.arg

C7_TwoElements ==
    /\ call.op = "dget"
    /\ call.path = Slash(<<"k">>, Slash(ListStar, <<"n">>))
    /\ ListOfDictsWith(tree, <<"k">>, <<"n">>)
    /\ call.val = ListV(<<IntV(1), IntV(2)>>)

--------------------------------------------------------------------------
(* C9 *)

\* C9: dget2 raises nothing: a segment that fails gives the default (checked
\* on the paths of key, *, key[idx] and *[idx] segments and the trees without
\* str).
C9_NeverRaises ==
    (call.op = "dget2" /\ IsLegacyPath(call.path) /\ IsPlainTree(tree)) =>
        call.exc = "none"

--------------------------------------------------------------------------
(* C10 *)

\* a "[*]" or a bracketed signed integer starts at position i of s
BracketAt(s, i) ==
    \E j \in i..Len(s) : SubSeq(s, i, j) = ListStar \/ IsBracketInt(SubSeq(s, i, j))

RECURSIVE Separated(_, _)
\* s from position i on, a "/" put before every bracket that follows a
\* character other than "/"
Separated(s, i) ==
    IF i > Len(s) THEN <<>>
    ELSE (IF i > 1 /\ s[i - 1] # "/" /\ BracketAt(s, i) THEN <<"/", s[i]>> ELSE <<s[i]>>)
             \o Separated(s, i + 1)

\* ListIndex only when the whole token is one bracketed signed integer
Classified(token) ==
    IF token = Star THEN ThroughDictFlat
    ELSE IF token = ListStar THEN ThroughListFlat
    ELSE IF IsBracketInt(token)
    THEN ThroughListIndexed(IntVal(SubSeq(token, 2, Len(token) - 1)))
    ELSE ThroughDictKey(token)

Compiled(path) ==
    [i \in 1..Len(Split(Separated(Stripped(path), 1))) |->
        Classified(Split(Separated(Stripped(path), 1))[i])]

\* C10: read_path makes a step of its own of every bracket that follows a
\* character other than "/", and a token is a ListIndex only when the whole of
\* it is one bracketed signed integer.
C10_Compile ==
    (call.op = "read_path" /\ call.exc = "none") => call.commands = Compiled(call.path)

--------------------------------------------------------------------------
(* C4 *)

\* C4: dwalk completes on every tree, and dget of each path it yields returns
\* the leaf yielded with it (checked on the trees whose root is a dict or a
\* list).
C4_WalkRead ==
    (call.op = "dwalk" /\ ~IsScalar(tree)) =>
        /\ call.exc = "none"
        /\ \A i \in 1..Len(call.pairs) :
              dget(tree, call.pairs[i].path, NoneV) = Ok(call.pairs[i].leaf)

--------------------------------------------------------------------------
(* C1 *)

\* C1: after a write that completes, on a path of keys, key[idx] and [idx]
\* segments that resolved to a leaf of the tree, the read of the path returns
\* the value written.
C1_RoundTrip ==
    (/\ call.op = "dset" /\ call.exc = "none"
     /\ IsAnyIndexPath(call.path)
     /\ ResolvesToLeaf(call.pre, call.path)) =>
        dget(tree, call.path, NoneV) = Ok(call.arg)

--------------------------------------------------------------------------
(* C2 *)

\* C2: a write that completed, made again with the same arguments, leaves
\* the tree as the first call left it.
C2_Idempotent ==
    (call.op = "dset" /\ call.exc = "none") =>
        dset(tree, call.path, call.arg).data = tree

--------------------------------------------------------------------------
(* C8 *)

\* {k: [{f: v0}, ..., {f: v(n-1)}]}, and {} before the first write
Built(vals) ==
    IF vals = <<>> THEN EmptyDict
    ELSE DictV(<<<<"k">>>>,
               <<ListV([i \in 1..Len(vals) |-> DictV(<<<<"f">>>>, <<vals[i]>>)])>>)

\* the list under k before and after the write of k[i]/f
Grown(old, new, i) ==
    /\ i = Len(old) => Len(new) = Len(old) + 1 /\ SubSeq(new, 1, Len(old)) = old
    /\ i < Len(old) => Len(new) = Len(old)

\* C8: from the empty dict, the writes of k[0]/f, k[1]/f, ... in this order
\* build {k: [{f: v0}, {f: v1}, ...]}; and on any tree where k maps to a
\* list, a write of k[i]/f with i the length of the list grows it by one
\* element and leaves the others as they were, one with i below the length
\* leaves the length as it was.
C8_BuildInOrder ==
    /\ run.ok => call.exc = "none" /\ tree = Built(run.vals)
    /\ \A i \in -1..MaxIdx :
          (/\ call.op = "dset" /\ call.path = BuildPath(i)
           /\ IsMapping(call.pre) /\ HasKey(call.pre, <<"k">>)
           /\ Lookup(call.pre, <<"k">>).kind = "list") =>
              /\ IsMapping(tree) /\ HasKey(tree, <<"k">>)
              /\ Lookup(tree, <<"k">>).kind = "list"
              /\ Grown(Lookup(call.pre, <<"k">>).items, Lookup(tree, <<"k">>).items, i)

C8_AllBuilt ==
    run.ok /\ call.op = "dset" /\ Len(run.vals) = MaxWrites
       /\ Len(Lookup(tree, <<"k">>).items) = MaxWrites

==========================================================================
